---- MODULE Spec2Model ----
(***************************************************************************)
(* Model of ScholarlyDatabase (src/scholarly_database.py): the SQLite      *)
(* store with its students tables and its award_criteria table, and the    *)
(* criteria query engine select_students_by_criteria, which builds a       *)
(* SELECT with pypika and executes it with sqlite3; and of the handlers of *)
(* the main window (src/main.py) that open and close a student file.       *)
(*                                                                         *)
(* SQL values are tagged records (NULL, number, text).  Cumulative GPAs in *)
(* the bounded datasets are whole numbers, and the numbers of a criteria   *)
(* document are integers.                                                  *)
(*                                                                         *)
(* Spec runs the query engine on every bounded criteria record, StoreSpec  *)
(* the whole database interface on a few, AwardSpec the award_criteria     *)
(* operations, and GuiSpec the main window.                                *)
(***************************************************************************)
EXTENDS Integers, Sequences, FiniteSets, TLC

(* ------------------------------------------------------------------ *)
(* Bounds                                                              *)
(* ------------------------------------------------------------------ *)

\* Number of records in the larger student file.
MaxRows == 3

(* ------------------------------------------------------------------ *)
(* SQL values                                                          *)
(* ------------------------------------------------------------------ *)

Null == [t |-> "null", n |-> 0, s |-> ""]
Num(n) == [t |-> "num", n |-> n, s |-> ""]
Text(s) == [t |-> "text", n |-> 0, s |-> s]

\* Python's None, for an absent criteria mapping, sort list, limit or name.
None == "<None>"

\* Every text of the bounded datasets and criteria, in memcmp() order
\* (the BINARY collation).
TextOrder ==
    << "", "1", "2", "3", "4", "5", "6", "7", "Abe, Bo", "CS", "F", "Gold",
       "Iron", "Junior", "Lee, Di", "M", "MATH", "Math", "May, Cy", "N",
       "Ng, Ed", "Oz, Fay", "Poe, Gil", "Senior", "Y", "Zed, Al", "az@u.edu",
       "ba@u.edu", "cm@u.edu", "cs", "dl@u.edu", "en@u.edu", "f", "fo@u.edu",
       "gold", "gp@u.edu", "iron", "junior", "m", "math", "n", "nonexistent",
       "senior", "y" >>

TextRank(s) == CHOOSE i \in 1..Len(TextOrder) : TextOrder[i] = s

\* The NOCASE collation folds the upper case ASCII letters to lower case.
Fold(s) ==
    CASE s = "CS" -> "cs"
      [] s = "MATH" -> "math"
      [] s = "Math" -> "math"
      [] s = "Senior" -> "senior"
      [] s = "Junior" -> "junior"
      [] s = "Y" -> "y"
      [] s = "N" -> "n"
      [] s = "M" -> "m"
      [] s = "F" -> "f"
      [] s = "Gold" -> "gold"
      [] s = "Iron" -> "iron"
      [] OTHER -> s

\* Texts that look like a number, and the number they convert to.
NumeralOf(s) ==
    CASE s = "1" -> 1 [] s = "2" -> 2 [] s = "3" -> 3 [] s = "4" -> 4
      [] s = "5" -> 5 [] s = "6" -> 6 [] s = "7" -> 7 [] OTHER -> -1

\* The text an integer renders to.
NumeralText(n) ==
    CASE n = 1 -> "1" [] n = 2 -> "2" [] n = 3 -> "3" [] n = 4 -> "4"
      [] n = 5 -> "5" [] n = 6 -> "6" [] n = 7 -> "7" [] OTHER -> ""

(* ------------------------------------------------------------------ *)
(* The students schema                                                 *)
(* ------------------------------------------------------------------ *)

students_columns ==
    << [name |-> "name",           affinity |-> "TEXT",    collate |-> "BINARY"],
       [name |-> "student_ID",     affinity |-> "TEXT",    collate |-> "BINARY"],
       [name |-> "cum_gpa",        affinity |-> "REAL",    collate |-> "BINARY"],
       [name |-> "major",          affinity |-> "TEXT",    collate |-> "NOCASE"],
       [name |-> "classification", affinity |-> "TEXT",    collate |-> "NOCASE"],
       [name |-> "earned_credits", affinity |-> "INTEGER", collate |-> "BINARY"],
       [name |-> "enrolled",       affinity |-> "TEXT",    collate |-> "NOCASE"],
       [name |-> "email",          affinity |-> "TEXT",    collate |-> "BINARY"],
       [name |-> "gender",         affinity |-> "TEXT",    collate |-> "NOCASE"],
       [name |-> "in_state",       affinity |-> "TEXT",    collate |-> "NOCASE"] >>

ColumnNames == {students_columns[i].name : i \in 1..Len(students_columns)}

ColumnIndex(field) ==
    CHOOSE i \in 1..Len(students_columns) : students_columns[i].name = field

(* ------------------------------------------------------------------ *)
(* SQLite comparison                                                   *)
(* ------------------------------------------------------------------ *)

\* Affinity conversion of a value before a comparison or on storage.
ApplyAffinity(affinity, v) ==
    IF affinity \in {"REAL", "INTEGER"} /\ v.t = "text" /\ NumeralOf(v.s) >= 0
        THEN Num(NumeralOf(v.s))
    ELSE IF affinity = "TEXT" /\ v.t = "num" /\ NumeralText(v.n) # ""
        THEN Text(NumeralText(v.n))
    ELSE v

\* -1, 0 or 1 for two values that are not NULL: a number sorts before a
\* text, numbers by value, texts by the collation.
CompareValues(x, y, collate) ==
    IF x.t = "num" /\ y.t = "num"
        THEN (IF x.n < y.n THEN -1 ELSE IF x.n > y.n THEN 1 ELSE 0)
    ELSE IF x.t = "num" THEN -1
    ELSE IF y.t = "num" THEN 1
    ELSE LET a == IF collate = "NOCASE" THEN Fold(x.s) ELSE x.s
             b == IF collate = "NOCASE" THEN Fold(y.s) ELSE y.s
         IN  IF a = b THEN 0
             ELSE IF TextRank(a) < TextRank(b) THEN -1 ELSE 1

\* The order of ORDER BY: NULL sorts before every other value.
CompareForSort(x, y, collate) ==
    IF x.t = "null" /\ y.t = "null" THEN 0
    ELSE IF x.t = "null" THEN -1
    ELSE IF y.t = "null" THEN 1
    ELSE CompareValues(x, y, collate)

\* Three-valued logic: "true", "false" or "null".
Not3(a) == IF a = "null" THEN "null" ELSE IF a = "true" THEN "false" ELSE "true"

Bool3(b) == IF b THEN "true" ELSE "false"

\* A binary comparison operator of SQL.
CompareOp(op, x, y, collate) ==
    IF x.t = "null" \/ y.t = "null" THEN "null"
    ELSE LET c == CompareValues(x, y, collate)
         IN  CASE op = "=" -> Bool3(c = 0)
               [] op = "<>" -> Bool3(c # 0)
               [] op = ">" -> Bool3(c > 0)
               [] op = ">=" -> Bool3(c >= 0)
               [] op = "<" -> Bool3(c < 0)
               [] op = "<=" -> Bool3(c <= 0)

\* x IN (list): true when some member equals x; false for an empty list
\* (also for a NULL x); otherwise NULL when x or a member is NULL.
InList(x, list, collate) ==
    IF Len(list) = 0 THEN "false"
    ELSE IF x.t = "null" THEN "null"
    ELSE IF \E i \in 1..Len(list) : CompareOp("=", x, list[i], collate) = "true"
        THEN "true"
    ELSE IF \E i \in 1..Len(list) : list[i].t = "null" THEN "null"
    ELSE "false"

(* ------------------------------------------------------------------ *)
(* Python values of a criteria document                                *)
(* ------------------------------------------------------------------ *)

Scalar(v) == [kind |-> "scalar", val |-> v, items |-> <<>>, ops |-> <<>>]
List(items) == [kind |-> "list", val |-> Null, items |-> items, ops |-> <<>>]
\* An operator document: the (key, arg) pairs of a dict, in its order.
Dict(ops) == [kind |-> "dict", val |-> Null, items |-> <<>>, ops |-> ops]

Op(key, arg) == [key |-> key, arg |-> arg]
Entry(field, item) == [field |-> field, item |-> item]

\* An optional mapping, list or integer of an AwardCriteriaRecord.
NoCriteria == [present |-> FALSE, entries |-> <<>>]
Criteria(entries) == [present |-> TRUE, entries |-> entries]
NoSort == [present |-> FALSE, keys |-> <<>>]
Sort(keys) == [present |-> TRUE, keys |-> keys]
SortKey(field, order) == [field |-> field, order |-> order]
NoLimit == [present |-> FALSE, n |-> 0]
Limit(n) == [present |-> TRUE, n |-> n]

AwardCriteriaRecord(name, criteria, limit, sort) ==
    [name |-> name, criteria |-> criteria, limit |-> limit, sort |-> sort]

\* StudentRecord(*row): the ten values of a fetched row, by position.
StudentRecord(row) ==
    [name |-> row[1], student_ID |-> row[2], cum_gpa |-> row[3],
     major |-> row[4], classification |-> row[5], earned_credits |-> row[6],
     enrolled |-> row[7], email |-> row[8], gender |-> row[9],
     in_state |-> row[10]]

(* ------------------------------------------------------------------ *)
(* Building the query (pypika)                                         *)
(* ------------------------------------------------------------------ *)

Criterion(field, op, arg) == [field |-> field, op |-> op, arg |-> arg]

\* Mutant: ascending for the direction 1 only.
SortOrderAscendingForOne(order) == IF order = 1 THEN "ASC" ELSE "DESC"

\* if order == -1: Order.desc, else: Order.asc
SortOrder(order) == IF order = -1 THEN "DESC" ELSE "ASC"

\* if record.sort: for field, order in record.sort: query.orderby(...)
OrderByClauses(sort) ==
    IF sort.present /\ Len(sort.keys) > 0
        THEN [i \in 1..Len(sort.keys) |->
                 [field |-> sort.keys[i].field,
                  order |-> SortOrder(sort.keys[i].order)]]
        ELSE <<>>

\* Mutant: $gte compiled to the strict comparison.
OperatorClauseStrictGte(field, key, val) ==
    CASE key = "$in" -> << Criterion(field, "IN", val) >>
      [] key = "$nin" -> << Criterion(field, "NOT IN", val) >>
      [] key = "$gte" -> << Criterion(field, ">", val) >>
      [] key = "$gt" -> << Criterion(field, ">", val) >>
      [] key = "$lte" -> << Criterion(field, "<=", val) >>
      [] key = "$lt" -> << Criterion(field, "<", val) >>
      [] key = "$eq" -> << Criterion(field, "=", val) >>
      [] key = "$ne" -> << Criterion(field, "<>", val) >>
      [] OTHER -> << >>

\* Mutant: the chain ends in an else that compares for equality.
OperatorClauseElseEquality(field, key, val) ==
    CASE key = "$in" -> << Criterion(field, "IN", val) >>
      [] key = "$nin" -> << Criterion(field, "NOT IN", val) >>
      [] key = "$gte" -> << Criterion(field, ">=", val) >>
      [] key = "$gt" -> << Criterion(field, ">", val) >>
      [] key = "$lte" -> << Criterion(field, "<=", val) >>
      [] key = "$lt" -> << Criterion(field, "<", val) >>
      [] key = "$ne" -> << Criterion(field, "<>", val) >>
      [] OTHER -> << Criterion(field, "=", val) >>

\* The if/elif chain over the key of an operator document: the criterion
\* of a recognised key, nothing for any other key.
OperatorClause(field, key, val) ==
    CASE key = "$in" -> << Criterion(field, "IN", val) >>
      [] key = "$nin" -> << Criterion(field, "NOT IN", val) >>
      [] key = "$gte" -> << Criterion(field, ">=", val) >>
      [] key = "$gt" -> << Criterion(field, ">", val) >>
      [] key = "$lte" -> << Criterion(field, "<=", val) >>
      [] key = "$lt" -> << Criterion(field, "<", val) >>
      [] key = "$eq" -> << Criterion(field, "=", val) >>
      [] key = "$ne" -> << Criterion(field, "<>", val) >>
      [] OTHER -> << >>

\* Mutant: a scalar entry adds no criterion.
ScalarClauseSkipped(field, item) == << >>

\* else: query.where(Field(field) == item)
ScalarClause(field, item) == << Criterion(field, "=", item) >>

\* Mutant: the loop over the operator document ends after its first key.
DictClausesFirstOnly(field, ops) ==
    IF Len(ops) = 0 THEN << >>
    ELSE OperatorClause(field, Head(ops).key, Head(ops).arg)

RECURSIVE DictClauses(_, _)
\* for key, val in item.items(): ...
DictClauses(field, ops) ==
    IF Len(ops) = 0 THEN << >>
    ELSE OperatorClause(field, Head(ops).key, Head(ops).arg)
             \o DictClauses(field, Tail(ops))

\* if isinstance(item, dict): ... else: ...
ItemClauses(field, item) ==
    IF item.kind = "dict" THEN DictClauses(field, item.ops)
    ELSE ScalarClause(field, item)

RECURSIVE EntriesClauses(_)
\* for field, item in record.criteria.items(): ...
EntriesClauses(entries) ==
    IF Len(entries) = 0 THEN << >>
    ELSE ItemClauses(Head(entries).field, Head(entries).item)
             \o EntriesClauses(Tail(entries))

\* if record.criteria: ...   Every query.where() ANDs its criterion to the
\* WHERE clause, so the clause is the sequence of the criteria.
WhereClauses(criteria) ==
    IF criteria.present /\ Len(criteria.entries) > 0
        THEN EntriesClauses(criteria.entries)
        ELSE << >>

\* Mutant: if record.limit is not None.
LimitClauseNotNone(limit) ==
    IF limit.present THEN Limit(limit.n) ELSE NoLimit

\* if record.limit: query = query.limit(record.limit)
LimitClause(limit) ==
    IF limit.present /\ limit.n # 0 THEN Limit(limit.n) ELSE NoLimit

\* The query select_students_by_criteria hands to cursor.execute().
BuildQuery(table_name, record) ==
    [from |-> table_name,
     orderby |-> OrderByClauses(record.sort),
     wheres |-> WhereClauses(record.criteria),
     limit |-> LimitClause(record.limit)]

(* ------------------------------------------------------------------ *)
(* Executing the query (sqlite3)                                       *)
(* ------------------------------------------------------------------ *)

\* The value a double-quoted name stands for in a row: the column of that
\* name, or, for a name that is no column, the name itself as a string
\* literal (SQLite's double-quoted string literals).
FieldValue(row, field) ==
    IF field \in ColumnNames THEN row[ColumnIndex(field)] ELSE Text(field)

FieldAffinity(field) ==
    IF field \in ColumnNames THEN students_columns[ColumnIndex(field)].affinity
    ELSE "NONE"

FieldCollate(field) ==
    IF field \in ColumnNames THEN students_columns[ColumnIndex(field)].collate
    ELSE "BINARY"

\* The literals of a list, converted by the affinity of the left operand.
ListLiterals(affinity, items) ==
    [i \in 1..Len(items) |-> ApplyAffinity(affinity, items[i])]

\* One criterion of the WHERE clause on one row: "true", "false" or "null".
EvalCriterion(c, row) ==
    LET x == FieldValue(row, c.field)
        affinity == FieldAffinity(c.field)
        collate == FieldCollate(c.field)
    IN  CASE c.op = "IN" ->
                 InList(x, ListLiterals(affinity, c.arg.items), collate)
          [] c.op = "NOT IN" ->
                 Not3(InList(x, ListLiterals(affinity, c.arg.items), collate))
          [] OTHER ->
                 CompareOp(c.op, x, ApplyAffinity(affinity, c.arg.val), collate)

\* WHERE c1 AND c2 AND ...: a row is returned when the conjunction is true.
WhereHolds(wheres, row) ==
    \A i \in 1..Len(wheres) : EvalCriterion(wheres[i], row) = "true"

\* The rows of the WHERE clause, in the order the rows are visited.
FilterRows(wheres, rows) ==
    LET Keep(row) == WhereHolds(wheres, row)
    IN  SelectSeq(rows, Keep)

RECURSIVE CompareRows(_, _, _)
\* ORDER BY k1, k2, ...: the first key on which two rows differ decides.
CompareRows(a, b, orderby) ==
    IF Len(orderby) = 0 THEN 0
    ELSE LET k == Head(orderby)
             c == CompareForSort(FieldValue(a, k.field), FieldValue(b, k.field),
                                 FieldCollate(k.field))
             d == IF k.order = "DESC" THEN 0 - c ELSE c
         IN  IF d # 0 THEN d ELSE CompareRows(a, b, Tail(orderby))

RECURSIVE InsertRow(_, _, _)
\* row put behind every row of the sorted sequence that is not after it.
InsertRow(row, sorted, orderby) ==
    IF Len(sorted) = 0 THEN << row >>
    ELSE IF CompareRows(Head(sorted), row, orderby) <= 0
        THEN << Head(sorted) >> \o InsertRow(row, Tail(sorted), orderby)
    ELSE << row >> \o sorted

RECURSIVE SortRows(_, _)
\* The sorter: rows that compare equal keep the order they were visited in.
SortRows(rows, orderby) ==
    IF Len(rows) = 0 THEN << >>
    ELSE InsertRow(rows[Len(rows)],
                   SortRows(SubSeq(rows, 1, Len(rows) - 1), orderby), orderby)

\* LIMIT n: the first n rows; a negative n is no limit.
LimitRows(rows, limit) ==
    IF limit.present /\ limit.n >= 0 /\ limit.n < Len(rows)
        THEN SubSeq(rows, 1, limit.n)
        ELSE rows

QueryFields(query) ==
    {query.wheres[i].field : i \in 1..Len(query.wheres)}
        \cup {query.orderby[i].field : i \in 1..Len(query.orderby)}

\* The exception of cursor.execute(str(query)), or "none": str(query) fails
\* for a table name of None; SQLite rejects a table that does not exist
\* and, when double-quoted string literals are disabled, a name that is no
\* column.
ExecuteError(query, tbls, dqsEnabled) ==
    IF query.from = None THEN "AttributeError"
    ELSE IF ~tbls[query.from].exists THEN "NoSuchTable"
    ELSE IF ~dqsEnabled /\ ~(QueryFields(query) \subseteq ColumnNames)
        THEN "NoSuchColumn"
    ELSE "none"

\* Mutant: the limit cuts the filtered rows before they are sorted.
FetchAllLimitFirst(query, rows, order) ==
    LET visited == [i \in 1..Len(rows) |-> rows[order[i]]]
    IN  SortRows(LimitRows(FilterRows(query.wheres, visited), query.limit),
                 query.orderby)

\* Mutant: cursor.fetchone() in place of cursor.fetchall().
FetchOne(query, rows, order) ==
    LET visited == [i \in 1..Len(rows) |-> rows[order[i]]]
        data == LimitRows(SortRows(FilterRows(query.wheres, visited),
                                   query.orderby), query.limit)
    IN  IF Len(data) = 0 THEN << >> ELSE << Head(data) >>

\* cursor.fetchall(): filter, then sort, then limit, whatever the order
\* in which the clauses were added to the query.  order is the order in
\* which the engine visits the rows of the table.
FetchAll(query, rows, order) ==
    LET visited == [i \in 1..Len(rows) |-> rows[order[i]]]
    IN  LimitRows(SortRows(FilterRows(query.wheres, visited), query.orderby),
                  query.limit)

\* for record in data: student_records.append(StudentRecord(*record))
StudentRecords(data) == [i \in 1..Len(data) |-> StudentRecord(data[i])]

(* ------------------------------------------------------------------ *)
(* The student files and the bounded inputs                            *)
(* ------------------------------------------------------------------ *)

\* One record of a student file, as the tuple insert_student stores.
Row(name, id, gpa, major, class, credits, enrolled, email, gender, in_state) ==
    << Text(name), Text(id), Num(gpa), Text(major), Text(class),
       Num(credits), Text(enrolled), Text(email), Text(gender),
       Text(in_state) >>

RecordsA ==
    << Row("Zed, Al", "3", 2, "CS", "Senior", 90, "Y", "az@u.edu", "M", "Y"),
       Row("Abe, Bo", "1", 4, "cs", "Junior", 60, "Y", "ba@u.edu", "F", "N"),
       Row("May, Cy", "2", 1, "Math", "Senior", 60, "N", "cm@u.edu", "F", "Y"),
       Row("Lee, Di", "4", 3, "", "Junior", 30, "Y", "dl@u.edu", "M", "N") >>

RecordsB ==
    << Row("Ng, Ed", "5", 4, "", "Senior", 90, "Y", "en@u.edu", "M", "Y"),
       Row("Oz, Fay", "6", 3, "CS", "Junior", 60, "N", "fo@u.edu", "F", "N"),
       Row("Poe, Gil", "7", 3, "MATH", "Senior", 30, "Y", "gp@u.edu", "M", "Y") >>

Min(a, b) == IF a < b THEN a ELSE b

FilePaths == {"a.csv", "b.csv"}
\* A file whose third record repeats the student_ID of its first, and a
\* file that cannot be read as student records.
BrokenPaths == {"dup.csv", "bad.csv"}
AllPaths == FilePaths \cup BrokenPaths

\* The records of dup.csv: the third one has the student_ID of the first.
RecordsDup ==
    << RecordsB[1], RecordsB[2],
       Row("Oz, Fay", "5", 3, "CS", "Junior", 60, "N", "fo@u.edu", "F", "N") >>

\* The exception of read_student_data_from_csv(file_path), or "none".
ReadError(file_path) ==
    IF file_path = "bad.csv" THEN "ValueError" ELSE "none"

\* read_student_data_from_csv(file_path): the records of the file.
read_student_data_from_csv(file_path) ==
    IF file_path = "a.csv"
        THEN SubSeq(RecordsA, 1, Min(MaxRows, Len(RecordsA)))
    ELSE IF file_path = "dup.csv" THEN RecordsDup
    ELSE IF file_path = "bad.csv" THEN << >>
    ELSE SubSeq(RecordsB, 1, Min(MaxRows - 1, Len(RecordsB)))

\* The records handed to insert_student: two students with one student_ID.
InsertStudents == {RecordsB[1], RecordsDup[3]}

CompareTokens == {"$eq", "$ne", "$gt", "$gte", "$lt", "$lte"}
ListTokens == {"$in", "$nin"}
UnknownTokens == {"$regex"}

NumberArgs == {Num(2), Num(4)}
ScalarArgs == NumberArgs \cup {Text("CS"), Text("math"), Null}
ListArgs ==
    { << >>, << Text("CS") >>, << Text("CS"), Text("math") >>,
      << Text("CS"), Null >>, << Num(2), Num(4) >> }

KnownOps ==
    {Op(k, Scalar(v)) : k \in CompareTokens, v \in ScalarArgs}
        \cup {Op(k, List(l)) : k \in ListTokens, l \in ListArgs}
UnknownOps == {Op(k, Scalar(Text("CS"))) : k \in UnknownTokens}

RangeDocuments ==
    {<< Op("$gte", Scalar(a)), Op("$lte", Scalar(b)) >> :
        a \in NumberArgs, b \in NumberArgs}
        \cup {<< Op("$gt", Scalar(a)), Op("$lt", Scalar(b)) >> :
                 a \in NumberArgs, b \in NumberArgs}

\* The operator documents: empty, one operator, a range, and each of
\* these with an unrecognised token before or behind it.
Documents ==
    LET known == {<< >>} \cup {<< o >> : o \in KnownOps} \cup RangeDocuments
    IN  known \cup {d \o << u >> : d \in known, u \in UnknownOps}
              \cup {<< u >> \o d : d \in known, u \in UnknownOps}

Items == {Scalar(v) : v \in ScalarArgs} \cup {Dict(d) : d \in Documents}

CriteriaFields == {"major", "cum_gpa", "nonexistent"}

\* The items of the criteria with two entries.
PairItems ==
    { Scalar(Text("CS")), Scalar(Num(3)),
      Dict(<< Op("$in", List(<< Text("CS"), Text("math") >>)) >>),
      Dict(<< Op("$gte", Scalar(Num(3))) >>),
      Dict(<< Op("$regex", Scalar(Text("CS"))) >>) }

CriteriaDocuments ==
    {NoCriteria, Criteria(<< >>)}
        \cup {Criteria(<< Entry(f, i) >>) : f \in CriteriaFields, i \in Items}
        \cup {Criteria(<< Entry(p[1], p[2]), Entry(p[3], p[4]) >>) :
                 p \in {q \in CriteriaFields \X PairItems
                                \X CriteriaFields \X PairItems : q[1] # q[3]}}

SortFields == {"cum_gpa", "major", "nonexistent"}
Directions == {-1, 1, 0, 2}

Sorts ==
    {NoSort, Sort(<< >>)}
        \cup {Sort(<< SortKey(f, d) >>) : f \in SortFields, d \in Directions}
        \cup {Sort(<< SortKey(p[1], p[2]), SortKey(p[3], p[4]) >>) :
                 p \in {q \in SortFields \X Directions \X SortFields \X {-1, 1} :
                           q[1] # q[3]}}

Limits == {NoLimit} \cup {Limit(n) : n \in {-1, 0, 1, 2}}

\* The criteria of the records that also sort or limit.
SortedCriteria ==
    { NoCriteria,
      Criteria(<< Entry("major", Scalar(Text("CS"))) >>),
      Criteria(<< Entry("cum_gpa", Dict(<< Op("$gte", Scalar(Num(3))) >>)) >>),
      Criteria(<< Entry("cum_gpa", Dict(<< Op("$lte", Scalar(Num(3))),
                                           Op("$regex", Scalar(Text("CS"))) >>)) >>) }

\* The records handed to select_students_by_criteria: every criteria
\* document without sort and limit, and a few criteria with every sort
\* and limit.
Records ==
    {AwardCriteriaRecord("award", c, NoLimit, NoSort) : c \in CriteriaDocuments}
        \cup {AwardCriteriaRecord("award", c, l, s) :
                 c \in SortedCriteria, l \in Limits, s \in Sorts}

(* ------------------------------------------------------------------ *)
(* State                                                               *)
(* ------------------------------------------------------------------ *)

VARIABLES
    tables,               \* the tables of the database file, by name
    students_table_name,  \* self.students_table_name
    dqs,                  \* this SQLite build reads "x" as 'x' if x is no column
    award_criteria,       \* the rows of the award_criteria table
    combobox_enabled,     \* scholarship_combobox.isEnabled()
    combobox_index,       \* scholarship_combobox.currentIndex()
    student_table,        \* the records of the model the table view shows
    lastOp,               \* the operation that has just run, or "idle"
    lastPath,             \* its file path or table name
    lastRecord,           \* its AwardCriteriaRecord
    lastStudent,          \* its student record, as a tuple, or << >>
    lastResult,           \* the list it returned
    lastError,            \* the exception it raised, or "none"
    message,              \* the exception its message box reported, or "none"
    connects,             \* the connections it opened
    handles,              \* the connections it left open
    scan                  \* the order in which its query visited the rows

storeVars == << tables, students_table_name, dqs >>
awardVars == << award_criteria >>
guiVars == << combobox_enabled, combobox_index, student_table >>
callVars == << lastOp, lastPath, lastRecord, lastStudent, lastResult,
               lastError, message, connects, handles, scan >>
vars == << tables, students_table_name, dqs, award_criteria, combobox_enabled,
           combobox_index, student_table, lastOp, lastPath, lastRecord,
           lastStudent, lastResult, lastError, message, connects, handles,
           scan >>

NoTable == [exists |-> FALSE, rows |-> << >>]
NoRecord == AwardCriteriaRecord("", NoCriteria, NoLimit, NoSort)

\* ScholarlyDatabase(file_path) on a database file that holds an empty
\* award_criteria table and no students table, and the main window as
\* initialize_central_widget leaves it.
Init ==
    /\ tables = [t \in AllPaths |-> NoTable]
    /\ students_table_name = None
    /\ dqs \in BOOLEAN
    /\ award_criteria = << >>
    /\ combobox_enabled = FALSE
    /\ combobox_index = 0
    /\ student_table = << >>
    /\ lastOp = "idle"
    /\ lastPath = None
    /\ lastRecord = NoRecord
    /\ lastStudent = << >>
    /\ message = "none"
    /\ lastResult = << >>
    /\ lastError = "none"
    /\ connects = 0
    /\ handles = 0
    /\ scan = << >>

(* ------------------------------------------------------------------ *)
(* Operations                                                          *)
(* ------------------------------------------------------------------ *)

\* file_is_open(file_path): a table of that name is in sqlite_master.
file_is_open(tbls, file_path) == tbls[file_path].exists

\* The student_ID values of rows.
StudentIds(rows) == {rows[i][2] : i \in 1..Len(rows)}

\* Mutant: student_ID without PRIMARY KEY.
PrimaryKeyConflictNever(rows, row) == FALSE

\* student_ID TEXT PRIMARY KEY: a table row already has the student_ID of
\* row, so that the INSERT raises sqlite3.IntegrityError.
PrimaryKeyConflict(rows, row) == row[2] \in StudentIds(rows)

RECURSIVE InsertedRows(_, _)
\* The loop of insert_student calls on a table holding rows: each INSERT
\* commits, and the first one whose student_ID is already in the table
\* raises and ends the loop.
InsertedRows(rows, data) ==
    IF Len(data) = 0 THEN rows
    ELSE IF PrimaryKeyConflict(rows, Head(data)) THEN rows
    ELSE InsertedRows(Append(rows, Head(data)), Tail(data))

\* drop_table(table_name)
drop_table(table_name) ==
    /\ lastOp = "idle"
    /\ tables' = [tables EXCEPT ![table_name] = NoTable]
    /\ UNCHANGED << students_table_name, dqs, awardVars, guiVars >>
    /\ lastOp' = "drop_table"
    /\ lastPath' = table_name
    /\ lastRecord' = NoRecord
    /\ lastStudent' = << >>
    /\ message' = "none"
    /\ lastResult' = << >>
    /\ lastError' = "none"
    /\ connects' = 1
    /\ handles' = 0
    /\ scan' = << >>

\* Mutant: the import never calls set_students_table_name.
student_csv_to_table_keeps_name(file_path) ==
    LET readError == ReadError(file_path)
        data == read_student_data_from_csv(file_path)
        rows == IF readError # "none" THEN << >> ELSE InsertedRows(<< >>, data)
        failed == readError = "none" /\ Len(rows) < Len(data)
    IN  /\ lastOp = "idle"
        /\ lastOp' = "student_csv_to_table"
        /\ lastPath' = file_path
        /\ lastRecord' = NoRecord
        /\ lastStudent' = << >>
        /\ message' = "none"
        /\ lastResult' = << >>
        /\ scan' = << >>
        /\ UNCHANGED << dqs, awardVars, guiVars, students_table_name >>
        /\ IF file_is_open(tables, file_path)
               THEN /\ lastError' = "FileIsOpenError"
                    /\ connects' = 1
                    /\ handles' = 0
                    /\ UNCHANGED tables
               ELSE /\ tables' = [tables EXCEPT
                                     ![file_path] = [exists |-> TRUE, rows |-> rows]]
                    /\ lastError' = IF readError # "none" THEN readError
                                    ELSE IF failed THEN "IntegrityError"
                                    ELSE "none"
                    /\ connects' = 3 + Len(rows) + (IF failed THEN 1 ELSE 0)
                    /\ handles' = IF failed THEN 1 ELSE 0

\* Mutant: the file_is_open check runs after the table was dropped.
student_csv_to_table_check_late(file_path) ==
    LET readError == ReadError(file_path)
        data == read_student_data_from_csv(file_path)
        rows == IF readError # "none" THEN << >> ELSE InsertedRows(<< >>, data)
        failed == readError = "none" /\ Len(rows) < Len(data)
    IN  /\ lastOp = "idle"
        /\ lastOp' = "student_csv_to_table"
        /\ lastPath' = file_path
        /\ lastRecord' = NoRecord
        /\ lastStudent' = << >>
        /\ message' = "none"
        /\ lastResult' = << >>
        /\ scan' = << >>
        /\ UNCHANGED << dqs, awardVars, guiVars >>
        /\ students_table_name' = file_path
        /\ tables' = [tables EXCEPT
                         ![file_path] = [exists |-> TRUE, rows |-> rows]]
        /\ lastError' = IF readError # "none" THEN readError
                        ELSE IF failed THEN "IntegrityError" ELSE "none"
        /\ connects' = 3 + Len(rows) + (IF failed THEN 1 ELSE 0)
        /\ handles' = IF failed THEN 1 ELSE 0

\* student_csv_to_table(file_path) on the tables tbls with the active name
\* name: the check, then the new name, the dropped and created table of
\* that name, the read of the file and one committed INSERT for each
\* record; an exception ends it where it is.
ImportOutcome(tbls, name, file_path) ==
    LET readError == ReadError(file_path)
        data == read_student_data_from_csv(file_path)
        rows == IF readError # "none" THEN << >> ELSE InsertedRows(<< >>, data)
        failed == readError = "none" /\ Len(rows) < Len(data)
    IN  IF file_is_open(tbls, file_path)
            THEN [tables |-> tbls, name |-> name, error |-> "FileIsOpenError",
                  connects |-> 1, handles |-> 0]
            ELSE [tables |-> [tbls EXCEPT
                                 ![file_path] = [exists |-> TRUE, rows |-> rows]],
                  name |-> file_path,
                  error |-> IF readError # "none" THEN readError
                            ELSE IF failed THEN "IntegrityError"
                            ELSE "none",
                  connects |-> 3 + Len(rows) + (IF failed THEN 1 ELSE 0),
                  handles |-> IF failed THEN 1 ELSE 0]

\* student_csv_to_table(file_path)
student_csv_to_table(file_path) ==
    LET outcome == ImportOutcome(tables, students_table_name, file_path)
    IN  /\ lastOp = "idle"
        /\ lastOp' = "student_csv_to_table"
        /\ lastPath' = file_path
        /\ lastRecord' = NoRecord
        /\ lastStudent' = << >>
        /\ message' = "none"
        /\ lastResult' = << >>
        /\ scan' = << >>
        /\ UNCHANGED << dqs, awardVars, guiVars >>
        /\ tables' = outcome.tables
        /\ students_table_name' = outcome.name
        /\ lastError' = outcome.error
        /\ connects' = outcome.connects
        /\ handles' = outcome.handles

\* insert_student(record): an INSERT into the table named
\* students_table_name; without that table, and for a student_ID the table
\* holds, cursor.execute raises.
insert_student(row) ==
    LET error == IF students_table_name = None THEN "NoSuchTable"
                 ELSE IF ~tables[students_table_name].exists THEN "NoSuchTable"
                 ELSE IF PrimaryKeyConflict(tables[students_table_name].rows, row)
                     THEN "IntegrityError"
                 ELSE "none"
    IN  /\ lastOp = "idle"
        /\ lastOp' = "insert_student"
        /\ lastPath' = None
        /\ lastRecord' = NoRecord
        /\ lastStudent' = row
        /\ message' = "none"
        /\ lastResult' = << >>
        /\ lastError' = error
        /\ connects' = 1
        /\ handles' = IF error # "none" THEN 1 ELSE 0
        /\ scan' = << >>
        /\ UNCHANGED << students_table_name, dqs, awardVars, guiVars >>
        /\ tables' = IF error # "none" THEN tables
                     ELSE [tables EXCEPT ![students_table_name].rows =
                                             Append(@, row)]

\* Mutant: the check records the file as the active students table.
file_is_open_call_sets_name(file_path) ==
    /\ lastOp = "idle"
    /\ lastOp' = "file_is_open"
    /\ lastPath' = file_path
    /\ lastRecord' = NoRecord
    /\ lastStudent' = << >>
    /\ message' = "none"
    /\ lastResult' = << file_is_open(tables, file_path) >>
    /\ lastError' = "none"
    /\ connects' = 1
    /\ handles' = 0
    /\ scan' = << >>
    /\ students_table_name' = file_path
    /\ UNCHANGED << tables, dqs, awardVars, guiVars >>

\* file_is_open(file_path), called by itself.
file_is_open_call(file_path) ==
    /\ lastOp = "idle"
    /\ lastOp' = "file_is_open"
    /\ lastPath' = file_path
    /\ lastRecord' = NoRecord
    /\ lastStudent' = << >>
    /\ message' = "none"
    /\ lastResult' = << file_is_open(tables, file_path) >>
    /\ lastError' = "none"
    /\ connects' = 1
    /\ handles' = 0
    /\ scan' = << >>
    /\ UNCHANGED << storeVars, awardVars, guiVars >>

\* select_students_by_criteria(record)
select_students_by_criteria(record) ==
    LET query == BuildQuery(students_table_name, record)
        error == ExecuteError(query, tables, dqs)
    IN  /\ lastOp = "idle"
        /\ lastOp' = "select_students_by_criteria"
        /\ lastPath' = None
        /\ lastRecord' = record
        /\ lastStudent' = << >>
        /\ message' = "none"
        /\ lastError' = error
        /\ connects' = 1
        /\ UNCHANGED << storeVars, awardVars, guiVars >>
        /\ IF error # "none"
               THEN /\ lastResult' = << >>
                    /\ handles' = 1
                    /\ scan' = << >>
               ELSE \E order \in Permutations(1..Len(tables[query.from].rows)) :
                        /\ scan' = order
                        /\ lastResult' = StudentRecords(
                               FetchAll(query, tables[query.from].rows, order))
                        /\ handles' = 0

\* Mutant: Order.asc in place of Order.desc.
SelectAllQueryAscending(table_name) ==
    [from |-> table_name,
     orderby |-> << [field |-> "cum_gpa", order |-> "ASC"] >>,
     wheres |-> << >>,
     limit |-> NoLimit]

\* Query.from_(table).select("*").orderby("cum_gpa", order=Order.desc)
SelectAllQuery(table_name) ==
    [from |-> table_name,
     orderby |-> << [field |-> "cum_gpa", order |-> "DESC"] >>,
     wheres |-> << >>,
     limit |-> NoLimit]

\* select_all_students()
select_all_students ==
    LET query == SelectAllQuery(students_table_name)
        error == ExecuteError(query, tables, dqs)
    IN  /\ lastOp = "idle"
        /\ lastOp' = "select_all_students"
        /\ lastPath' = None
        /\ lastRecord' = NoRecord
        /\ lastStudent' = << >>
        /\ message' = "none"
        /\ lastError' = error
        /\ connects' = 1
        /\ UNCHANGED << storeVars, awardVars, guiVars >>
        /\ IF error # "none"
               THEN /\ lastResult' = << >>
                    /\ handles' = 1
                    /\ scan' = << >>
               ELSE \E order \in Permutations(1..Len(tables[query.from].rows)) :
                        /\ scan' = order
                        /\ lastResult' = StudentRecords(
                               FetchAll(query, tables[query.from].rows, order))
                        /\ handles' = 0

(* ------------------------------------------------------------------ *)
(* The award_criteria table                                            *)
(* ------------------------------------------------------------------ *)

\* A JSON document: null, a number, a string, an array or an object (the
\* members of an object in the order they are written).
JNull == [j |-> "null", n |-> 0, s |-> "", items |-> << >>]
JNumber(n) == [j |-> "number", n |-> n, s |-> "", items |-> << >>]
JString(s) == [j |-> "string", n |-> 0, s |-> s, items |-> << >>]
JArray(items) == [j |-> "array", n |-> 0, s |-> "", items |-> items]
JObject(members) == [j |-> "object", n |-> 0, s |-> "", items |-> members]
JMember(key, value) == [key |-> key, value |-> value]

\* json.dumps of a scalar and of a list of scalars.
DumpsScalar(v) ==
    IF v.t = "null" THEN JNull
    ELSE IF v.t = "num" THEN JNumber(v.n)
    ELSE JString(v.s)

DumpsArg(arg) ==
    IF arg.kind = "list"
        THEN JArray([i \in 1..Len(arg.items) |-> DumpsScalar(arg.items[i])])
        ELSE DumpsScalar(arg.val)

\* json.dumps of the value of a criteria entry.
DumpsItem(item) ==
    IF item.kind = "dict"
        THEN JObject([i \in 1..Len(item.ops) |->
                         JMember(item.ops[i].key, DumpsArg(item.ops[i].arg))])
        ELSE DumpsArg(item)

\* json.dumps(record.criteria)
DumpsCriteria(criteria) ==
    IF ~criteria.present THEN JNull
    ELSE JObject([i \in 1..Len(criteria.entries) |->
                     JMember(criteria.entries[i].field,
                             DumpsItem(criteria.entries[i].item))])

\* json.dumps(record.sort)
DumpsSort(sort) ==
    IF ~sort.present THEN JNull
    ELSE JArray([i \in 1..Len(sort.keys) |->
                    JArray(<< JString(sort.keys[i].field),
                              JNumber(sort.keys[i].order) >>)])

\* json.loads of a scalar and of an array of scalars.
LoadsScalar(doc) ==
    IF doc.j = "null" THEN Null
    ELSE IF doc.j = "number" THEN Num(doc.n)
    ELSE Text(doc.s)

LoadsArg(doc) ==
    IF doc.j = "array"
        THEN List([i \in 1..Len(doc.items) |-> LoadsScalar(doc.items[i])])
        ELSE Scalar(LoadsScalar(doc))

LoadsItem(doc) ==
    IF doc.j = "object"
        THEN Dict([i \in 1..Len(doc.items) |->
                      Op(doc.items[i].key, LoadsArg(doc.items[i].value))])
        ELSE LoadsArg(doc)

\* json.loads(criteria)
LoadsCriteria(doc) ==
    IF doc.j = "null" THEN NoCriteria
    ELSE Criteria([i \in 1..Len(doc.items) |->
                      Entry(doc.items[i].key, LoadsItem(doc.items[i].value))])

\* json.loads(sort)
LoadsSort(doc) ==
    IF doc.j = "null" THEN NoSort
    ELSE Sort([i \in 1..Len(doc.items) |->
                  SortKey(doc.items[i].items[1].s, doc.items[i].items[2].n)])

\* The row insert_award_criteria stores for record.
AwardRow(record) ==
    [name |-> record.name,
     criteria |-> DumpsCriteria(record.criteria),
     limit |-> IF record.limit.present THEN Num(record.limit.n) ELSE Null,
     sort |-> DumpsSort(record.sort)]

\* AwardCriteriaRecord(name, json.loads(criteria), limit, json.loads(sort))
AwardRecordOf(row) ==
    AwardCriteriaRecord(row.name, LoadsCriteria(row.criteria),
                        IF row.limit.t = "null" THEN NoLimit ELSE Limit(row.limit.n),
                        LoadsSort(row.sort))

\* Mutant: the name column without COLLATE NOCASE.
NameMatchesBinary(row, name) == row.name = name

\* "name"=<name> on the column name TEXT PRIMARY KEY COLLATE NOCASE.
NameMatches(row, name) == Fold(row.name) = Fold(name)

\* The rows of the table that the WHERE clause on name selects.
MatchingAwards(rows, name) == SelectSeq(rows, LAMBDA r : NameMatches(r, name))
OtherAwards(rows, name) == SelectSeq(rows, LAMBDA r : ~NameMatches(r, name))

\* Mutant: the update leaves the sort column as it was.
UpdatedAwardRowKeepsSort(row, record) ==
    [name |-> row.name,
     criteria |-> DumpsCriteria(record.criteria),
     limit |-> IF record.limit.present THEN Num(record.limit.n) ELSE Null,
     sort |-> row.sort]

\* UPDATE ... SET criteria, limit, sort: the row keeps its name.
UpdatedAwardRow(row, record) ==
    [name |-> row.name,
     criteria |-> DumpsCriteria(record.criteria),
     limit |-> IF record.limit.present THEN Num(record.limit.n) ELSE Null,
     sort |-> DumpsSort(record.sort)]

RECURSIVE SortAwards(_)
\* ORDER BY name ASC in the NOCASE collation of the column.
SortAwards(rows) ==
    IF Len(rows) = 0 THEN << >>
    ELSE LET last == rows[Len(rows)]
             sorted == SortAwards(SubSeq(rows, 1, Len(rows) - 1))
             before == SelectSeq(sorted, LAMBDA r :
                           CompareValues(Text(r.name), Text(last.name), "NOCASE") <= 0)
             after == SelectSeq(sorted, LAMBDA r :
                           CompareValues(Text(r.name), Text(last.name), "NOCASE") > 0)
         IN  before \o << last >> \o after

\* record = None, or the record of the first row that cursor.fetchone()
\* gives: the list of no record or of that one.
SelectAward(rows, name) ==
    LET data == MatchingAwards(rows, name)
    IN  IF Len(data) = 0 THEN << >> ELSE << AwardRecordOf(Head(data)) >>

\* insert_award_criteria(record)
insert_award_criteria(record) ==
    LET conflict == Len(MatchingAwards(award_criteria, record.name)) > 0
    IN  /\ lastOp = "idle"
        /\ lastOp' = "insert_award_criteria"
        /\ lastPath' = None
        /\ lastRecord' = record
        /\ lastStudent' = << >>
        /\ message' = "none"
        /\ lastResult' = << >>
        /\ lastError' = IF conflict THEN "IntegrityError" ELSE "none"
        /\ connects' = 1
        /\ handles' = IF conflict THEN 1 ELSE 0
        /\ scan' = << >>
        /\ award_criteria' = IF conflict THEN award_criteria
                             ELSE Append(award_criteria, AwardRow(record))
        /\ UNCHANGED << storeVars, guiVars >>

\* update_award_criteria(name, criteria, limit, sort), the four arguments
\* as one record.
update_award_criteria(record) ==
    /\ lastOp = "idle"
    /\ lastOp' = "update_award_criteria"
    /\ lastPath' = None
    /\ lastRecord' = record
    /\ lastStudent' = << >>
    /\ message' = "none"
    /\ lastResult' = << >>
    /\ lastError' = "none"
    /\ connects' = 1
    /\ handles' = 0
    /\ scan' = << >>
    /\ award_criteria' =
           [i \in 1..Len(award_criteria) |->
               IF NameMatches(award_criteria[i], record.name)
                   THEN UpdatedAwardRow(award_criteria[i], record)
                   ELSE award_criteria[i]]
    /\ UNCHANGED << storeVars, guiVars >>

\* remove_award_criteria(name)
remove_award_criteria(name) ==
    /\ lastOp = "idle"
    /\ lastOp' = "remove_award_criteria"
    /\ lastPath' = None
    /\ lastRecord' = AwardCriteriaRecord(name, NoCriteria, NoLimit, NoSort)
    /\ lastStudent' = << >>
    /\ message' = "none"
    /\ lastResult' = << >>
    /\ lastError' = "none"
    /\ connects' = 1
    /\ handles' = 0
    /\ scan' = << >>
    /\ award_criteria' = OtherAwards(award_criteria, name)
    /\ UNCHANGED << storeVars, guiVars >>

\* select_award_criteria(award_name)
select_award_criteria(award_name) ==
    /\ lastOp = "idle"
    /\ lastOp' = "select_award_criteria"
    /\ lastPath' = None
    /\ lastRecord' = AwardCriteriaRecord(award_name, NoCriteria, NoLimit, NoSort)
    /\ lastStudent' = << >>
    /\ message' = "none"
    /\ lastResult' = SelectAward(award_criteria, award_name)
    /\ lastError' = "none"
    /\ connects' = 1
    /\ handles' = 0
    /\ scan' = << >>
    /\ UNCHANGED << storeVars, awardVars, guiVars >>

\* select_all_award_criteria()
select_all_award_criteria ==
    /\ lastOp = "idle"
    /\ lastOp' = "select_all_award_criteria"
    /\ lastPath' = None
    /\ lastRecord' = NoRecord
    /\ lastStudent' = << >>
    /\ message' = "none"
    /\ lastResult' = LET data == SortAwards(award_criteria)
                     IN  [i \in 1..Len(data) |-> AwardRecordOf(data[i])]
    /\ lastError' = "none"
    /\ connects' = 1
    /\ handles' = 0
    /\ scan' = << >>
    /\ UNCHANGED << storeVars, awardVars, guiVars >>

\* The call is over: the caller has taken what it returned or raised.  The
\* calls are synchronous, so the next one starts only then.
Return ==
    /\ lastOp # "idle"
    /\ lastOp' = "idle"
    /\ lastPath' = None
    /\ lastRecord' = NoRecord
    /\ lastStudent' = << >>
    /\ message' = "none"
    /\ lastResult' = << >>
    /\ lastError' = "none"
    /\ connects' = 0
    /\ handles' = 0
    /\ scan' = << >>
    /\ UNCHANGED << storeVars, awardVars, guiVars >>

Next ==
    \/ \E file_path \in FilePaths : student_csv_to_table(file_path)
    \/ \E table_name \in FilePaths : drop_table(table_name)
    \/ \E record \in Records : select_students_by_criteria(record)
    \/ select_all_students
    \/ Return

Spec == Init /\ [][Next]_vars

(* ------------------------------------------------------------------ *)
(* The whole database interface, on small inputs                       *)
(* ------------------------------------------------------------------ *)

AwardNames == {"Gold", "gold", "Iron"}

\* The criteria, limit and sort of the award records.
AwardPayloads ==
    { << Criteria(<< Entry("major", Scalar(Text("CS"))) >>), NoLimit, NoSort >>,
      << Criteria(<< Entry("cum_gpa", Dict(<< Op("$gte", Scalar(Num(2))) >>)),
                     Entry("major", Dict(<< Op("$in", List(<< Text("CS"),
                                                              Null >>)) >>)) >>),
         Limit(2), Sort(<< SortKey("cum_gpa", -1), SortKey("major", 1) >>) >>,
      << NoCriteria, Limit(0), Sort(<< >>) >> }

AwardRecords ==
    {AwardCriteriaRecord(n, p[1], p[2], p[3]) : n \in AwardNames, p \in AwardPayloads}

\* The award records and the criteria of the runs that also import files.
StoreAwardRecords == {r \in AwardRecords : r.name = "Gold" /\ r.limit.present}
StoreRecords ==
    { AwardCriteriaRecord("award", Criteria(<< Entry("major", Scalar(Text("CS"))) >>),
                          NoLimit, NoSort),
      AwardCriteriaRecord("award", Criteria(<< Entry("nonexistent", Scalar(Null)) >>),
                          NoLimit, NoSort) }

NextStore ==
    \/ \E file_path \in AllPaths : student_csv_to_table(file_path)
    \/ \E row \in InsertStudents : insert_student(row)
    \/ \E table_name \in AllPaths : drop_table(table_name)
    \/ \E file_path \in AllPaths : file_is_open_call(file_path)
    \/ \E record \in StoreRecords : select_students_by_criteria(record)
    \/ select_all_students
    \/ \E record \in StoreAwardRecords : insert_award_criteria(record)
    \/ \E record \in StoreAwardRecords : update_award_criteria(record)
    \/ remove_award_criteria("gold")
    \/ select_award_criteria("gold")
    \/ select_all_award_criteria
    \/ Return

StoreSpec == Init /\ [][NextStore]_vars

\* The award_criteria operations on every award record.
NextAward ==
    \/ \E record \in AwardRecords : insert_award_criteria(record)
    \/ \E record \in AwardRecords : update_award_criteria(record)
    \/ \E name \in AwardNames : remove_award_criteria(name)
    \/ \E name \in AwardNames : select_award_criteria(name)
    \/ select_all_award_criteria
    \/ Return

AwardSpec == Init /\ [][NextAward]_vars

(* ------------------------------------------------------------------ *)
(* The main window (src/main.py)                                       *)
(* ------------------------------------------------------------------ *)

\* The award records of the database file the window starts on.
GuiAwards ==
    << AwardRow(AwardCriteriaRecord(
           "Gold", Criteria(<< Entry("major", Scalar(Text("CS"))) >>),
           NoLimit, NoSort)),
       AwardRow(AwardCriteriaRecord(
           "Iron", Criteria(<< Entry("cum_gpa", Dict(<< Op("$gte", Scalar(Num(2))) >>)) >>),
           Limit(2), Sort(<< SortKey("cum_gpa", -1) >>))) >>

\* load_scholarship_combobox(): the blank item, then the award names.
ComboboxItems(awards) ==
    LET data == SortAwards(awards)
    IN  << "" >> \o [i \in 1..Len(data) |-> AwardRecordOf(data[i]).name]

\* The query scholarship_changed runs for the text of the current item:
\* every student for the blank item, the award's criteria for a name.
ScholarshipQuery(text, name, awards) ==
    IF text = "" THEN SelectAllQuery(name)
    ELSE BuildQuery(name, Head(SelectAward(awards, text)))

\* ScholarlyMainWindow() on a database file that holds award records.
InitGui ==
    /\ tables = [t \in AllPaths |-> NoTable]
    /\ students_table_name = None
    /\ dqs \in BOOLEAN
    /\ award_criteria = GuiAwards
    /\ combobox_enabled = FALSE
    /\ combobox_index = 0
    /\ student_table = << >>
    /\ lastOp = "idle"
    /\ lastPath = None
    /\ lastRecord = NoRecord
    /\ lastStudent = << >>
    /\ message = "none"
    /\ lastResult = << >>
    /\ lastError = "none"
    /\ connects = 0
    /\ handles = 0
    /\ scan = << >>

\* open_file() when the dialog gives file_path ("" when it is cancelled):
\* the import, whose exception a message box reports, then in every case
\* select_all_students, the new table model and the enabled combobox
\* back on its first item (whose change runs scholarship_changed).
open_file(file_path) ==
    LET outcome == ImportOutcome(tables, students_table_name, file_path)
        query == SelectAllQuery(outcome.name)
        error == ExecuteError(query, outcome.tables, dqs)
    IN  /\ lastOp = "idle"
        /\ lastOp' = "open_file"
        /\ lastPath' = file_path
        /\ lastRecord' = NoRecord
        /\ lastStudent' = << >>
        /\ lastResult' = << >>
        /\ UNCHANGED << dqs, awardVars >>
        /\ IF file_path = ""
               THEN /\ UNCHANGED << tables, students_table_name, guiVars >>
                    /\ message' = "none"
                    /\ lastError' = "none"
                    /\ connects' = 0
                    /\ handles' = 0
                    /\ scan' = << >>
               ELSE /\ tables' = outcome.tables
                    /\ students_table_name' = outcome.name
                    /\ message' = outcome.error
                    /\ lastError' = error
                    /\ IF error # "none"
                           THEN /\ UNCHANGED guiVars
                                /\ connects' = outcome.connects + 1
                                /\ handles' = outcome.handles + 1
                                /\ scan' = << >>
                           ELSE \E order \in Permutations(
                                        1..Len(outcome.tables[query.from].rows)) :
                                    /\ scan' = order
                                    /\ student_table' = StudentRecords(
                                           FetchAll(query,
                                                    outcome.tables[query.from].rows,
                                                    order))
                                    /\ combobox_enabled' = TRUE
                                    /\ combobox_index' = 0
                                    /\ connects' = outcome.connects + 1
                                           + (IF combobox_index # 0 THEN 1 ELSE 0)
                                    /\ handles' = outcome.handles

\* scholarship_changed() after the user has picked the item at index.
scholarship_changed(index) ==
    LET text == ComboboxItems(award_criteria)[index + 1]
        query == ScholarshipQuery(text, students_table_name, award_criteria)
        error == ExecuteError(query, tables, dqs)
    IN  /\ lastOp = "idle"
        /\ combobox_enabled
        /\ index # combobox_index
        /\ lastOp' = "scholarship_changed"
        /\ lastPath' = None
        /\ lastRecord' = IF text = "" THEN NoRecord
                         ELSE Head(SelectAward(award_criteria, text))
        /\ lastStudent' = << >>
        /\ message' = "none"
        /\ lastResult' = << >>
        /\ lastError' = error
        /\ connects' = IF text = "" THEN 1 ELSE 2
        /\ combobox_index' = index
        /\ UNCHANGED << storeVars, awardVars, combobox_enabled >>
        /\ IF error # "none"
               THEN /\ UNCHANGED student_table
                    /\ handles' = 1
                    /\ scan' = << >>
               ELSE \E order \in Permutations(1..Len(tables[query.from].rows)) :
                        /\ scan' = order
                        /\ student_table' = StudentRecords(
                               FetchAll(query, tables[query.from].rows, order))
                        /\ handles' = 0

\* The body of close_file(): the combobox disabled and put back on its
\* first item (whose change runs scholarship_changed), then the class
\* attribute ScholarlyDatabase.students_table_name, which does not exist:
\* the AttributeError ends the handler before drop_table and before the
\* empty table model.
CloseFile(op) ==
    LET query == SelectAllQuery(students_table_name)
        error == ExecuteError(query, tables, dqs)
    IN  /\ lastOp = "idle"
        /\ lastOp' = op
        /\ lastPath' = None
        /\ lastRecord' = NoRecord
        /\ lastStudent' = << >>
        /\ message' = "none"
        /\ lastResult' = << >>
        /\ combobox_enabled' = FALSE
        /\ combobox_index' = 0
        /\ UNCHANGED << storeVars, awardVars >>
        /\ IF combobox_index = 0
               THEN /\ UNCHANGED student_table
                    /\ lastError' = "AttributeError"
                    /\ connects' = 0
                    /\ handles' = 0
                    /\ scan' = << >>
               ELSE IF error # "none"
                   THEN /\ UNCHANGED student_table
                        /\ lastError' = error
                        /\ connects' = 1
                        /\ handles' = 1
                        /\ scan' = << >>
               ELSE \E order \in Permutations(1..Len(tables[query.from].rows)) :
                        /\ scan' = order
                        /\ student_table' = StudentRecords(
                               FetchAll(query, tables[query.from].rows, order))
                        /\ lastError' = "AttributeError"
                        /\ connects' = 1
                        /\ handles' = 0

\* close_file()
close_file == CloseFile("close_file")

\* closeEvent(event) answered Yes: close_file(), whose exception ends the
\* handler before event.accept().
closeEvent == CloseFile("closeEvent")

\* closeEvent(event) answered No: event.ignore().
closeEventIgnored ==
    /\ lastOp = "idle"
    /\ lastOp' = "closeEventIgnored"
    /\ lastPath' = None
    /\ lastRecord' = NoRecord
    /\ lastStudent' = << >>
    /\ message' = "none"
    /\ lastResult' = << >>
    /\ lastError' = "none"
    /\ connects' = 0
    /\ handles' = 0
    /\ scan' = << >>
    /\ UNCHANGED << storeVars, awardVars, guiVars >>

NextGui ==
    \/ \E file_path \in AllPaths \cup {""} : open_file(file_path)
    \/ \E index \in 0..Len(GuiAwards) : scholarship_changed(index)
    \/ close_file
    \/ closeEvent
    \/ closeEventIgnored
    \/ Return

GuiSpec == InitGui /\ [][NextGui]_vars

(* ------------------------------------------------------------------ *)
(* Properties of select_students_by_criteria                           *)
(* ------------------------------------------------------------------ *)

Selected == lastOp = "select_students_by_criteria"
Succeeded == Selected /\ lastError = "none"

\* The rows of the active students table (of a call that succeeded).
ActiveRows == tables[students_table_name].rows
AllRecords == {StudentRecord(ActiveRows[i]) : i \in 1..Len(ActiveRows)}
ResultSet == {lastResult[i] : i \in 1..Len(lastResult)}

Unlimited(record) == ~record.limit.present \/ record.limit.n = 0
Unsorted(record) == ~record.sort.present \/ Len(record.sort.keys) = 0

RecognisedTokens == {"$eq", "$ne", "$gt", "$gte", "$lt", "$lte", "$in", "$nin"}

\* The comparison each operator token stands for.
TokenOperator(key) ==
    CASE key = "$eq" -> "=" [] key = "$ne" -> "<>" [] key = "$gt" -> ">"
      [] key = "$gte" -> ">=" [] key = "$lt" -> "<" [] key = "$lte" -> "<="
      [] key = "$in" -> "IN" [] key = "$nin" -> "NOT IN"

\* row satisfies every predicate of the criteria mapping: equality for a
\* scalar entry, and each recognised operator of an operator document.
Satisfies(row, criteria) ==
    \A i \in 1..Len(criteria.entries) :
        LET e == criteria.entries[i]
        IN  IF e.item.kind = "dict"
                THEN \A j \in 1..Len(e.item.ops) :
                         e.item.ops[j].key \in RecognisedTokens =>
                             EvalCriterion(
                                 Criterion(e.field,
                                           TokenOperator(e.item.ops[j].key),
                                           e.item.ops[j].arg), row) = "true"
                ELSE EvalCriterion(Criterion(e.field, "=", e.item), row) = "true"

SatisfyingRecords(criteria) ==
    {StudentRecord(ActiveRows[i]) :
        i \in {j \in 1..Len(ActiveRows) : Satisfies(ActiveRows[j], criteria)}}

\* What the call on record returns in this state, visiting the rows in the
\* order of the last call: the exception and the list.
Outcome(record) ==
    LET query == BuildQuery(students_table_name, record)
        error == ExecuteError(query, tables, dqs)
    IN  [error |-> error,
         result |-> IF error # "none" THEN << >>
                    ELSE StudentRecords(FetchAll(query, ActiveRows, scan))]

LastOutcome == [error |-> lastError, result |-> lastResult]

\* C1: without a limit, select_students_by_criteria returns exactly the rows
\* of the active table that satisfy every predicate of the criteria (one per
\* scalar entry, one per recognised operator of an operator document, all
\* ANDed), each once.
C1_ExactlySatisfyingRows ==
    (Succeeded /\ Unlimited(lastRecord)) =>
        /\ ResultSet = SatisfyingRecords(lastRecord.criteria)
        /\ Len(lastResult) = Cardinality(ResultSet)

\* A call with two criteria entries that kept some rows and dropped others.
C1_Witness ==
    /\ Succeeded /\ Unlimited(lastRecord)
    /\ Len(lastRecord.criteria.entries) = 2
    /\ \E i \in 1..2 : /\ lastRecord.criteria.entries[i].item.kind = "dict"
                       /\ Len(lastRecord.criteria.entries[i].item.ops) > 0
    /\ Len(lastResult) > 0
    /\ Len(lastResult) < Len(ActiveRows)

\* The record with every scalar entry {f: v} written as {f: {"$eq": v}}.
ExpandScalars(record) ==
    [record EXCEPT !.criteria.entries =
        [i \in 1..Len(record.criteria.entries) |->
            LET e == record.criteria.entries[i]
            IN  IF e.item.kind = "dict" THEN e
                ELSE Entry(e.field, Dict(<< Op("$eq", e.item) >>))]]

HasScalarEntry(record) ==
    \E i \in 1..Len(record.criteria.entries) :
        record.criteria.entries[i].item.kind = "scalar"

\* C2: criteria {f: v} and {f: {"$eq": v}}, with the same sort and limit,
\* give the same outcome on every dataset.
C2_ScalarShorthand ==
    Selected => Outcome(ExpandScalars(lastRecord)) = LastOutcome

\* A call with a scalar entry that kept some rows and dropped others.
C2_Witness ==
    /\ Succeeded
    /\ HasScalarEntry(lastRecord)
    /\ Len(lastResult) > 0
    /\ Len(lastResult) < Len(ActiveRows)

\* The fields a record names in its criteria.
RecordFields(record) ==
    {record.criteria.entries[i].field : i \in 1..Len(record.criteria.entries)}

\* C3: a record whose criteria name a field that is no Student column fails
\* with the unknown-field error before a connection is opened, and returns
\* nothing (stated for a call on an active table that exists).
C3_UnknownFieldRejected ==
    (/\ Selected
     /\ students_table_name # None
     /\ tables[students_table_name].exists
     /\ ~(RecordFields(lastRecord) \subseteq ColumnNames)) =>
        /\ lastError = "UnknownFieldError"
        /\ connects = 0
        /\ lastResult = << >>

\* The record with $in and $nin exchanged in its operator documents.
Complement(record) ==
    [record EXCEPT !.criteria.entries =
        [i \in 1..Len(record.criteria.entries) |->
            LET e == record.criteria.entries[i]
            IN  Entry(e.field,
                      Dict([j \in 1..Len(e.item.ops) |->
                               Op(IF e.item.ops[j].key = "$in" THEN "$nin"
                                  ELSE "$in", e.item.ops[j].arg)]))]]

\* The criteria are one entry {"major": {"$in": S}}.
IsMembership(record) ==
    /\ Len(record.criteria.entries) = 1
    /\ record.criteria.entries[1].field = "major"
    /\ record.criteria.entries[1].item.kind = "dict"
    /\ Len(record.criteria.entries[1].item.ops) = 1
    /\ record.criteria.entries[1].item.ops[1].key = "$in"

\* C4: the rows of {f: {"$in": S}} and the rows of {f: {"$nin": S}} are
\* disjoint and together make up the whole dataset, for every value set S
\* (stated for the column major).
C4_InNinComplement ==
    (Succeeded /\ IsMembership(lastRecord) /\ Unlimited(lastRecord)) =>
        LET nin == Outcome(Complement(lastRecord)).result
            NinSet == {nin[i] : i \in 1..Len(nin)}
        IN  /\ ResultSet \cap NinSet = {}
            /\ ResultSet \cup NinSet = AllRecords

\* a is not behind b in the order of the sort specification: the first
\* key on which they differ has them in its direction (-1 descending, any
\* other value ascending).
InSortOrder(a, b, keys) ==
    \/ \A k \in 1..Len(keys) :
           CompareForSort(FieldValue(a, keys[k].field),
                          FieldValue(b, keys[k].field),
                          FieldCollate(keys[k].field)) = 0
    \/ \E k \in 1..Len(keys) :
           /\ \A h \in 1..(k - 1) :
                  CompareForSort(FieldValue(a, keys[h].field),
                                 FieldValue(b, keys[h].field),
                                 FieldCollate(keys[h].field)) = 0
           /\ LET c == CompareForSort(FieldValue(a, keys[k].field),
                                      FieldValue(b, keys[k].field),
                                      FieldCollate(keys[k].field))
              IN  IF keys[k].order = -1 THEN c > 0 ELSE c < 0

\* The row a returned record was made from.
RowOf(rec) ==
    CHOOSE r \in {ActiveRows[i] : i \in 1..Len(ActiveRows)} :
        StudentRecord(r) = rec

\* C5: with a positive limit L the result is the first min(L, matching rows)
\* rows of the filtered and sorted result: its rows all satisfy the
\* criteria, are in sort order, and no satisfying row left out is before a
\* returned one.
C5_SortThenLimit ==
    (Succeeded /\ lastRecord.limit.present /\ lastRecord.limit.n > 0) =>
        LET matching == SatisfyingRecords(lastRecord.criteria)
            keys == lastRecord.sort.keys
        IN  /\ Len(lastResult) = Min(lastRecord.limit.n, Cardinality(matching))
            /\ Cardinality(ResultSet) = Len(lastResult)
            /\ ResultSet \subseteq matching
            /\ \A i \in 1..(Len(lastResult) - 1) :
                   InSortOrder(RowOf(lastResult[i]), RowOf(lastResult[i + 1]), keys)
            /\ \A rec \in matching \ ResultSet : \A i \in 1..Len(lastResult) :
                   InSortOrder(RowOf(lastResult[i]), RowOf(rec), keys)

\* A limit cut a sorted result whose first row was visited last.
C5_Witness ==
    /\ Succeeded /\ lastRecord.limit.present /\ lastRecord.limit.n > 0
    /\ ~Unsorted(lastRecord)
    /\ Len(lastResult) = lastRecord.limit.n
    /\ Len(lastResult) < Cardinality(SatisfyingRecords(lastRecord.criteria))
    /\ lastResult[1] = StudentRecord(ActiveRows[scan[Len(scan)]])

\* The criteria are one entry {f: {lo: a, hi: b}} on a numeric column,
\* with numbers a and b.
IsRange(record, lo, hi) ==
    /\ Len(record.criteria.entries) = 1
    /\ record.criteria.entries[1].field \in {"cum_gpa", "earned_credits"}
    /\ record.criteria.entries[1].item.kind = "dict"
    /\ Len(record.criteria.entries[1].item.ops) = 2
    /\ record.criteria.entries[1].item.ops[1].key = lo
    /\ record.criteria.entries[1].item.ops[2].key = hi
    /\ record.criteria.entries[1].item.ops[1].arg.val.t = "num"
    /\ record.criteria.entries[1].item.ops[2].arg.val.t = "num"

RangeField(record) == record.criteria.entries[1].field
RangeLow(record) == record.criteria.entries[1].item.ops[1].arg.val.n
RangeHigh(record) == record.criteria.entries[1].item.ops[2].arg.val.n

\* The records of the active table whose number in field is in a set.
RecordsWithin(field, numbers) ==
    {rec \in AllRecords : rec[field].t = "num" /\ rec[field].n \in numbers}

\* C6: {f: {"$gte": a, "$lte": b}} on a numeric field returns exactly the
\* rows with a <= row[f] <= b, the boundary values included, and
\* {f: {"$gt": a, "$lt": b}} exactly the rows with a < row[f] < b.
C6_RangeBounds ==
    /\ (Succeeded /\ Unlimited(lastRecord) /\ IsRange(lastRecord, "$gte", "$lte")) =>
           ResultSet = RecordsWithin(RangeField(lastRecord),
                                     RangeLow(lastRecord)..RangeHigh(lastRecord))
    /\ (Succeeded /\ Unlimited(lastRecord) /\ IsRange(lastRecord, "$gt", "$lt")) =>
           ResultSet = RecordsWithin(RangeField(lastRecord),
                                     (RangeLow(lastRecord) + 1)
                                         ..(RangeHigh(lastRecord) - 1))

\* An inclusive range that returned a row on each of its two boundaries
\* and left a row out.
C6_Witness ==
    /\ Succeeded /\ Unlimited(lastRecord) /\ IsRange(lastRecord, "$gte", "$lte")
    /\ RangeLow(lastRecord) < RangeHigh(lastRecord)
    /\ \E rec \in ResultSet : rec[RangeField(lastRecord)].n = RangeLow(lastRecord)
    /\ \E rec \in ResultSet : rec[RangeField(lastRecord)].n = RangeHigh(lastRecord)
    /\ Len(lastResult) < Len(ActiveRows)

\* ops without the unrecognised tokens.
KnownOpsOf(ops) ==
    LET IsKnown(o) == o.key \in RecognisedTokens
    IN  SelectSeq(ops, IsKnown)

\* The record with the unrecognised tokens taken out of its operator
\* documents.
StripUnknown(record) ==
    [record EXCEPT !.criteria.entries =
        [i \in 1..Len(record.criteria.entries) |->
            LET e == record.criteria.entries[i]
            IN  IF e.item.kind = "dict"
                    THEN Entry(e.field, Dict(KnownOpsOf(e.item.ops)))
                    ELSE e]]

HasUnknownToken(record) ==
    \E i \in 1..Len(record.criteria.entries) :
        /\ record.criteria.entries[i].item.kind = "dict"
        /\ \E j \in 1..Len(record.criteria.entries[i].item.ops) :
               record.criteria.entries[i].item.ops[j].key \notin RecognisedTokens

\* C7: an unrecognised operator token changes nothing: the call returns
\* what it returns for the record without it, and raises no error for it;
\* a document of unrecognised tokens only filters nothing.
C7_UnknownTokensIgnored ==
    Selected =>
        /\ Outcome(StripUnknown(lastRecord)) = LastOutcome
        /\ (Succeeded /\ Unlimited(lastRecord)
              /\ \A i \in 1..Len(lastRecord.criteria.entries) :
                     /\ lastRecord.criteria.entries[i].item.kind = "dict"
                     /\ KnownOpsOf(lastRecord.criteria.entries[i].item.ops) = << >>)
               => ResultSet = AllRecords

\* A call whose operator document holds a recognised operator and an
\* unrecognised token, and that kept some rows and dropped others.
C7_Witness ==
    /\ Succeeded
    /\ HasUnknownToken(lastRecord)
    /\ StripUnknown(lastRecord).criteria.entries[1].item.ops # << >>
    /\ Len(lastResult) > 0
    /\ Len(lastResult) < Len(ActiveRows)

\* C8: with empty or absent criteria, no sort and no limit, the call
\* returns every row of the active students table, each once.
C8_EmptyCriteriaMatchAll ==
    (/\ Succeeded
     /\ Len(lastRecord.criteria.entries) = 0
     /\ Unsorted(lastRecord)
     /\ ~lastRecord.limit.present) =>
        /\ ResultSet = AllRecords
        /\ Len(lastResult) = Len(ActiveRows)

\* Such a call on a table of several rows, with an empty mapping.
C8_Witness ==
    /\ Succeeded
    /\ lastRecord.criteria.present
    /\ Len(lastRecord.criteria.entries) = 0
    /\ Unsorted(lastRecord)
    /\ ~lastRecord.limit.present
    /\ Len(lastResult) = Len(ActiveRows)
    /\ Len(ActiveRows) > 1

\* C9: a limit of zero or an absent limit returns all the rows that satisfy
\* the criteria, and a result is shorter than that only under a positive
\* limit.
C9_ZeroLimitUnbounded ==
    Succeeded =>
        LET matching == SatisfyingRecords(lastRecord.criteria)
        IN  /\ Unlimited(lastRecord) =>
                   /\ ResultSet = matching
                   /\ Len(lastResult) = Cardinality(matching)
            /\ Len(lastResult) < Cardinality(matching) =>
                   (lastRecord.limit.present /\ lastRecord.limit.n > 0)

\* A call with limit 0 that returned several rows.
C9_Witness ==
    /\ Succeeded
    /\ lastRecord.limit.present
    /\ lastRecord.limit.n = 0
    /\ Len(lastResult) > 1

\* C10: the returned rows are in the lexicographic order of the sort
\* specification, direction -1 descending and every other direction
\* ascending.
C10_MultiKeySort ==
    Succeeded =>
        \A i \in 1..(Len(lastResult) - 1) :
            InSortOrder(RowOf(lastResult[i]), RowOf(lastResult[i + 1]),
                        lastRecord.sort.keys)

\* A sort of two keys on Student columns, the first one with a direction
\* other than 1 and -1, whose second key decided the order of two rows that
\* were visited in the other order.
C10_Witness ==
    /\ Succeeded
    /\ Len(lastRecord.sort.keys) = 2
    /\ lastRecord.sort.keys[1].order \notin {1, -1}
    /\ lastRecord.sort.keys[1].field \in ColumnNames
    /\ lastRecord.sort.keys[2].field \in ColumnNames
    /\ \E i \in 1..(Len(lastResult) - 1) :
           /\ CompareForSort(
                  FieldValue(RowOf(lastResult[i]), lastRecord.sort.keys[1].field),
                  FieldValue(RowOf(lastResult[i + 1]), lastRecord.sort.keys[1].field),
                  FieldCollate(lastRecord.sort.keys[1].field)) = 0
           /\ \E p, q \in 1..Len(scan) :
                  /\ p < q
                  /\ StudentRecord(ActiveRows[scan[q]]) = lastResult[i]
                  /\ StudentRecord(ActiveRows[scan[p]]) = lastResult[i + 1]

(* ------------------------------------------------------------------ *)
(* Properties of the store                                             *)
(* ------------------------------------------------------------------ *)

SelectedAll == lastOp = "select_all_students" /\ lastError = "none"

\* The place of a returned record in the order the query visited the rows.
ScanPosition(rec) ==
    CHOOSE k \in 1..Len(scan) : StudentRecord(ActiveRows[scan[k]]) = rec

\* C11: select_all_students returns every row of the active students
\* table, each adjacent pair with the earlier cum_gpa >= the later one;
\* select_students_by_criteria with an empty sort applies no ordering of
\* its own: its rows come back in the order the query visited them.
C11_AllStudentsGpaDescending ==
    /\ SelectedAll =>
           /\ Len(lastResult) = Len(ActiveRows)
           /\ ResultSet = AllRecords
           /\ \A i \in 1..(Len(lastResult) - 1) :
                  lastResult[i].cum_gpa.n >= lastResult[i + 1].cum_gpa.n
    /\ (Succeeded /\ Unsorted(lastRecord)) =>
           \A i, j \in 1..Len(lastResult) :
               i < j => ScanPosition(lastResult[i]) < ScanPosition(lastResult[j])

\* select_all_students returned three rows or more that the query had
\* visited in another order than that of their averages.
C11_Witness ==
    /\ SelectedAll
    /\ Len(lastResult) >= 3
    /\ \E p, q \in 1..Len(scan) :
           /\ p < q
           /\ ActiveRows[scan[p]][3].n < ActiveRows[scan[q]][3].n

QueryOps ==
    {"select_students_by_criteria", "select_all_students",
     "select_award_criteria", "select_all_award_criteria", "file_is_open"}

\* C12: a query never mutates the store: a step that is a call of
\* select_students_by_criteria, select_all_students, select_award_criteria,
\* select_all_award_criteria or file_is_open leaves the tables and their
\* rows, the award_criteria rows and the active students table name as
\* they were, whether it returns or raises.
C12_QueriesNeverMutate ==
    [][lastOp' \in QueryOps =>
           /\ tables' = tables
           /\ award_criteria' = award_criteria
           /\ students_table_name' = students_table_name]_vars

\* A query has raised on a store that holds student rows and award rows.
C12_Witness ==
    /\ lastOp \in QueryOps
    /\ lastError # "none"
    /\ Len(award_criteria) > 0
    /\ \E t \in AllPaths : tables[t].exists /\ Len(tables[t].rows) > 0

Imported == lastOp = "student_csv_to_table"

\* C13: after a successful student_csv_to_table the active students table
\* is the table of the imported file and holds exactly the records of that
\* file, in the file's order: no row of an earlier import, no merge.
C13_WholesaleReplace ==
    (Imported /\ lastError = "none") =>
        /\ students_table_name = lastPath
        /\ tables[lastPath].exists
        /\ tables[lastPath].rows = read_student_data_from_csv(lastPath)

\* A file was imported while the table of another file, imported before,
\* still held rows.
C13_Witness ==
    /\ Imported
    /\ lastError = "none"
    /\ Len(tables[lastPath].rows) > 0
    /\ \E t \in AllPaths \ {lastPath} :
           tables[t].exists /\ Len(tables[t].rows) > 0

\* C14: student_csv_to_table(F) on a store whose active students table is
\* the table of F raises FileIsOpenError and changes nothing: the active
\* name, the tables and their rows are as before the call.
C14_ReimportRejected ==
    [][(/\ lastOp' = "student_csv_to_table"
        /\ students_table_name = lastPath'
        /\ tables[lastPath'].exists) =>
           /\ lastError' = "FileIsOpenError"
           /\ tables' = tables
           /\ students_table_name' = students_table_name]_vars

\* The import of the file whose table is active, holding the rows of an
\* import and one inserted row, was rejected.
C14_Witness ==
    /\ Imported
    /\ lastError = "FileIsOpenError"
    /\ students_table_name = lastPath
    /\ Len(tables[lastPath].rows) > Len(read_student_data_from_csv(lastPath))

\* C15: a student_csv_to_table that fails partway (the file cannot be read
\* after the table was recreated, or an insert_student fails after some
\* rows went in) leaves the store with the complete old dataset (nothing
\* changed) or the complete new one as the active students table, never
\* with an empty or half-populated table.
C15_AtomicImport ==
    [][(/\ lastOp' = "student_csv_to_table"
        /\ lastError' \notin {"none", "FileIsOpenError"}) =>
           \/ /\ tables' = tables
              /\ students_table_name' = students_table_name
           \/ /\ ReadError(lastPath') = "none"
              /\ students_table_name' = lastPath'
              /\ tables'[lastPath'].exists
              /\ tables'[lastPath'].rows = read_student_data_from_csv(lastPath')]_vars

\* C16: in every reachable state no students table holds two rows with one
\* student_ID, and an insert_student whose student_ID the active table
\* already holds raises and leaves the rows of every table unchanged.
C16_UniqueStudentIds ==
    /\ [](\A t \in AllPaths :
              Cardinality(StudentIds(tables[t].rows)) = Len(tables[t].rows))
    /\ [][(/\ lastOp' = "insert_student"
           /\ students_table_name # None
           /\ tables[students_table_name].exists
           /\ lastStudent'[2] \in StudentIds(tables[students_table_name].rows)) =>
              /\ lastError' = "IntegrityError"
              /\ tables' = tables]_vars

\* insert_student was refused for a record whose student_ID an imported
\* row of another student holds.
C16_Witness ==
    /\ lastOp = "insert_student"
    /\ lastError = "IntegrityError"
    /\ \E i \in 1..Len(ActiveRows) :
           /\ ActiveRows[i][2] = lastStudent[2]
           /\ ActiveRows[i] # lastStudent
           /\ i <= Len(read_student_data_from_csv(students_table_name))

(* ------------------------------------------------------------------ *)
(* Properties of the award_criteria table                              *)
(* ------------------------------------------------------------------ *)

\* Two names that are equal when the case of their letters is ignored.
SameName(a, b) == Fold(a) = Fold(b)

\* The places of the rows stored under a name, the case ignored.
Named(rows, name) == {i \in 1..Len(rows) : SameName(rows[i].name, name)}

\* C17: after insert_award_criteria(r), and after update_award_criteria
\* with the name of a stored row and a criteria, limit and sort,
\* select_award_criteria of that name returns a record with the same name,
\* criteria, limit and sort; for a name that was removed, or that no row
\* is stored under, it returns None.
C17_AwardRoundTrip ==
    /\ (lastOp = "insert_award_criteria" /\ lastError = "none") =>
           SelectAward(award_criteria, lastRecord.name) = << lastRecord >>
    /\ (/\ lastOp = "update_award_criteria"
        /\ \E i \in 1..Len(award_criteria) :
               award_criteria[i].name = lastRecord.name) =>
           SelectAward(award_criteria, lastRecord.name) = << lastRecord >>
    /\ lastOp = "remove_award_criteria" =>
           SelectAward(award_criteria, lastRecord.name) = << >>
    /\ (/\ lastOp = "select_award_criteria"
        /\ Named(award_criteria, lastRecord.name) = {}) =>
           lastResult = << >>

\* A stored award of two was updated, under its own name, to a criteria
\* document with operators, a limit and a sort of two keys.
C17_Witness ==
    /\ lastOp = "update_award_criteria"
    /\ Len(award_criteria) = 2
    /\ \E i \in 1..Len(award_criteria) : award_criteria[i].name = lastRecord.name
    /\ lastRecord.limit.present
    /\ Len(lastRecord.sort.keys) = 2
    /\ Len(lastRecord.criteria.entries) = 2

\* C18: the name of an award is a unique, case-insensitive key: no two
\* rows have names that are equal ignoring case, an insert under such a
\* name raises and changes nothing, and a select, update or remove with a
\* name that differs only in case from a stored one addresses that row and
\* leaves every other row unchanged.
C18_CaseInsensitiveName ==
    /\ [](\A i, j \in 1..Len(award_criteria) :
              i # j => ~SameName(award_criteria[i].name, award_criteria[j].name))
    /\ [][(/\ lastOp' = "insert_award_criteria"
           /\ Named(award_criteria, lastRecord'.name) # {}) =>
              /\ lastError' = "IntegrityError"
              /\ award_criteria' = award_criteria]_vars
    /\ [][(/\ lastOp' \in {"select_award_criteria", "update_award_criteria",
                           "remove_award_criteria"}
           /\ Named(award_criteria, lastRecord'.name) # {}) =>
              LET name == lastRecord'.name
                  i == CHOOSE k \in Named(award_criteria, name) : TRUE
                  row == award_criteria[i]
              IN  /\ SelectSeq(award_criteria', LAMBDA r : ~SameName(r.name, name))
                         = SelectSeq(award_criteria, LAMBDA r : ~SameName(r.name, name))
                  /\ lastOp' = "select_award_criteria" =>
                         /\ lastResult' = << AwardRecordOf(row) >>
                         /\ award_criteria' = award_criteria
                  /\ lastOp' = "update_award_criteria" =>
                         /\ Len(award_criteria') = Len(award_criteria)
                         /\ AwardRecordOf(award_criteria'[i]) =
                                AwardCriteriaRecord(row.name, lastRecord'.criteria,
                                                    lastRecord'.limit, lastRecord'.sort)
                  /\ lastOp' = "remove_award_criteria" =>
                         Named(award_criteria', name) = {}]_vars

\* An award stored with another was updated under a name that differs from
\* its stored name in case only.
C18_Witness ==
    /\ lastOp = "update_award_criteria"
    /\ Len(award_criteria) = 2
    /\ \E i \in 1..Len(award_criteria) :
           /\ SameName(award_criteria[i].name, lastRecord.name)
           /\ award_criteria[i].name # lastRecord.name
           /\ AwardRecordOf(award_criteria[i]).criteria = lastRecord.criteria

(* ------------------------------------------------------------------ *)
(* Properties of the connections                                       *)
(* ------------------------------------------------------------------ *)

\* C19: whenever an operation has returned or raised, no connection that
\* it opened is still open: the number of open handles is zero, also
\* after a call whose query execution failed.
C19_NoOpenHandles == lastOp # "idle" => handles = 0

(* ------------------------------------------------------------------ *)
(* Properties of the main window                                       *)
(* ------------------------------------------------------------------ *)

\* C20: after Close, and after a closeEvent answered Yes, the students
\* table of the open file no longer exists in the database, the table
\* view shows an empty model, and the scholarship combobox is disabled
\* and back on its blank first item.
C20_CloseClearsEverything ==
    lastOp \in {"close_file", "closeEvent"} =>
        /\ students_table_name # None => ~tables[students_table_name].exists
        /\ student_table = << >>
        /\ ~combobox_enabled
        /\ combobox_index = 0

\* C21: the scholarship combobox is enabled only if the last open_file
\* loaded a student file successfully and no close_file followed it: a
\* step leaves it enabled only when the step is an open_file whose import
\* and query raised nothing, or when it was enabled before and the step is
\* neither a close_file, a closeEvent answered Yes, nor an open_file that
\* was given a file; so it is disabled after a cancelled dialog on a new
\* window and after an open_file whose import raised.
C21_ComboboxEnabledOnlyWhenLoaded ==
    [][combobox_enabled' =>
           \/ /\ lastOp' = "open_file"
              /\ lastPath' # ""
              /\ message' = "none"
              /\ lastError' = "none"
           \/ /\ combobox_enabled
              /\ lastOp' \notin {"close_file", "closeEvent"}
              /\ ~(lastOp' = "open_file" /\ lastPath' # "")]_vars

\* C22: an import is rejected only for the file whose table is currently
\* active: a student_csv_to_table that raises FileIsOpenError was given
\* the active students table name, so that after importing A and then
\* another file B the import of A goes through again.
C22_RejectedOnlyForActiveFile ==
    [][(/\ lastOp' = "student_csv_to_table"
        /\ lastError' = "FileIsOpenError") =>
           lastPath' = students_table_name]_vars

====
